---- MODULE Spec2Model ----
(***************************************************************************)
(* Model of the client artifact collector                                  *)
(* (grr_response_client/client_actions/artifact_collector.py).             *)
(*                                                                         *)
(* One collection run is a single-threaded walk over args.artifacts.  The  *)
(* generators _ProcessSources / _ParseSourceType are modelled by a stack   *)
(* of frames, one per active _ProcessSources generator (the outermost for  *)
(* the artifact, one more for every ARTIFACT_FILES source being resolved). *)
(* Strings that go through interpolation or glob detection are sequences   *)
(* of tokens, so that joining and expanding them is computed.              *)
(***************************************************************************)
EXTENDS Integers, Sequences, FiniteSets, TLC

(* ------------------------------ bounds --------------------------------- *)

\* longest args.artifacts list of a run
MaxArtifacts == 2

\* most responses one action.Start(request) produces
MaxResponses == 2

(* --------------------------- small helpers ----------------------------- *)

Last(s) == s[Len(s)]

Front(s) == SubSeq(s, 1, Len(s) - 1)

Range(s) == {s[n] : n \in 1..Len(s)}

\* every order in which a Python set can be iterated
Orderings(S) == {s \in [1..Cardinality(S) -> S] : \A a, b \in 1..Cardinality(S) : s[a] = s[b] => a = b}

SeqsUpTo(S, n) == UNION {[1..m -> S] : m \in 0..n}

(* --------------------------- exceptions -------------------------------- *)

NoError == "none"

\* raise NotImplementedError()
NotImplementedError == "NotImplementedError"

\* raise ValueError("Incorrect source type: %s" % source_type)
IncorrectSourceType == "ValueError: Incorrect source type"

\* raise ValueError("Only supported path type is OS.")
OnlyOSPathType == "ValueError: Only supported path type is OS."

\* raise ValueError("Incorrect action type: %s" % action_name)
IncorrectActionType == "ValueError: Incorrect action type"

\* raise ValueError("Unsupported parser: %s" % processor_obj)
UnsupportedParser == "ValueError: Unsupported parser"

\* response.request / response.stdout / response.pathspec on a response without it
AttributeError == "AttributeError"

\* raised by artifact_utils.InterpolateKbAttributes
KnowledgeBaseInterpolationError == "KnowledgeBaseInterpolationError"

\* raised out of self.Progress()
ProgressAborted == "ProgressAborted"

\* raised out of action.Start(request)
ActionFailed == "ActionFailed"

(* ----------------------- sources and requests -------------------------- *)

SwitchTypes == {"COMMAND", "DIRECTORY", "FILE", "GREP", "REGISTRY_KEY", "REGISTRY_VALUE", "WMI", "ARTIFACT_FILES", "GRR_CLIENT_ACTION"}

\* the placeholders a template can hold
Placeholders == {"%%users.username%%", "%%environ_systemroot%%", "%%environ_temp%%"}

\* tokens at which rdf_paths.GROUPING_PATTERN matches
GroupingTokens == {"{a,b}"}

Sep == "\\"

\* Python's None
None == "None"

Source(type) == [type |-> type, path_type |-> "UNSET", paths |-> <<>>, cmd |-> "", args |-> <<>>, key_value_pairs |-> <<>>, query |-> <<>>, base_object |-> "", client_action |-> "", pathspec_attribute |-> None, artifact_sources |-> <<>>]

NoRequest == [cls |-> "", paths |-> <<>>, pathtype |-> "", action |-> "", cmd |-> "", args |-> <<>>, query |-> <<>>, base_object |-> "", pathspec |-> <<>>]

NoPair == [id |-> <<>>, action |-> "", request |-> NoRequest]

(* --------------------------- knowledge base ---------------------------- *)

KnowledgeBase == [a \in {"%%users.username%%", "%%environ_systemroot%%"} |-> IF a = "%%users.username%%" THEN {"alice", "bob"} ELSE {"C:"}]

(* ------------- artifact_utils.InterpolateKbAttributes ------------------ *)

\* a pattern references an attribute the knowledge base does not have
MissingAttribute(pattern, knowledge_base) == \E n \in 1..Len(pattern) : pattern[n] \in Placeholders /\ (pattern[n] \notin DOMAIN knowledge_base \/ knowledge_base[pattern[n]] = {})

RECURSIVE Expand(_, _)
Expand(pattern, knowledge_base) == IF pattern = <<>> THEN {<<>>} ELSE LET t == Head(pattern) alternatives == IF t \in Placeholders THEN (IF t \in DOMAIN knowledge_base THEN knowledge_base[t] ELSE {}) ELSE {t} IN {<<a>> \o r : a \in alternatives, r \in Expand(Tail(pattern), knowledge_base)}

\* the outcome of iterating InterpolateKbAttributes(pattern, kb, ignore_errors)
InterpolateKbAttributes(pattern, knowledge_base, ignore_errors) == IF MissingAttribute(pattern, knowledge_base) /\ ~ignore_errors THEN [raised |-> KnowledgeBaseInterpolationError, out |-> {}] ELSE [raised |-> NoError, out |-> Expand(pattern, knowledge_base)]

(* ------------------------- the source resolver ------------------------- *)

Resolved(pending) == [raised |-> NoError, pending |-> pending, nested |-> FALSE]

Raised(error) == [raised |-> error, pending |-> <<>>, nested |-> FALSE]

\* the source is skipped: no request, no error
_NotImplementedSkips(args) == {Resolved(<<>>)}

\* _NotImplemented(args)
_NotImplemented(args) == {Raised(NotImplementedError)}

\* the path type is not looked at
AnyPathType(args) == TRUE

\* the check that opens _ProcessFileSource and _ProcessArtifactFilesSource
IsOSPathType(args) == args.path_type = "OS"

_ProcessFileSource(args) == IF ~IsOSPathType(args) THEN {Raised(OnlyOSPathType)} ELSE {Resolved(<<[action |-> "FileFinderOS", request |-> [NoRequest EXCEPT !.cls = "FileFinderArgs", !.paths = args.paths, !.pathtype = args.path_type, !.action = "STAT"]]>>)}

_ProcessCommandSource(args) == {Resolved(<<[action |-> "ExecuteCommand", request |-> [NoRequest EXCEPT !.cls = "ExecuteRequest", !.cmd = args.cmd, !.args = args.args]]>>)}

\* interpolation errors are ignored whatever the run's flag says
_ProcessWmiSourceIgnoring(args, knowledge_base, ignore_interpolation_errors) == {Resolved([n \in 1..Len(order) |-> [action |-> "WmiQuery", request |-> [NoRequest EXCEPT !.cls = "WMIRequest", !.query = order[n], !.base_object = args.base_object]]]) : order \in Orderings(Expand(args.query, knowledge_base))}

\* the WMI query requests, in every order the interpolation can produce them
_ProcessWmiSource(args, knowledge_base, ignore_interpolation_errors) == LET queries == InterpolateKbAttributes(args.query, knowledge_base, ignore_interpolation_errors) IN IF queries.raised # NoError THEN {Raised(queries.raised)} ELSE {Resolved([n \in 1..Len(order) |-> [action |-> "WmiQuery", request |-> [NoRequest EXCEPT !.cls = "WMIRequest", !.query = order[n], !.base_object = args.base_object]]]) : order \in Orderings(queries.out)}

\* StatFS is in the switch too
SwitchActionWithStatFS == {"GetHostname", "ListProcesses", "ListNetworkConnections", "EnumerateInterfaces", "EnumerateUsers", "StatFS"}

\* switch_action of _ProcessClientActionSource
SwitchAction == {"GetHostname", "ListProcesses", "ListNetworkConnections", "EnumerateInterfaces", "EnumerateUsers"}

_ProcessClientActionSource(args) == IF args.client_action \in SwitchAction THEN {Resolved(<<[action |-> args.client_action, request |-> [NoRequest EXCEPT !.cls = IF args.client_action = "ListNetworkConnections" THEN "ListNetworkConnectionsArgs" ELSE "dict"]]>>)} ELSE {Raised(IncorrectActionType)}

\* "*" in kvdict["key"] or rdf_paths.GROUPING_PATTERN.search(kvdict["key"])
KeyHasGlob(key) == \E n \in 1..Len(key) : key[n] = "*" \/ key[n] \in GroupingTokens

\* "\\".join((kvdict["key"], kvdict["value"])) or the key alone
RegistryPath(kvdict) == IF kvdict.value # <<>> THEN kvdict.key \o <<Sep>> \o kvdict.value ELSE kvdict.key

\* the loop over key_value_pairs: has_glob, new_paths, and the first error
RECURSIVE RegistryLoop(_, _, _, _, _)
RegistryLoop(pairs, knowledge_base, ignore, has_glob, new_paths) == IF pairs = <<>> THEN [raised |-> NoError, has_glob |-> has_glob, new_paths |-> new_paths] ELSE LET kvdict == Head(pairs) expanded_paths == InterpolateKbAttributes(RegistryPath(kvdict), knowledge_base, ignore) IN IF expanded_paths.raised # NoError THEN [raised |-> expanded_paths.raised, has_glob |-> has_glob, new_paths |-> new_paths] ELSE RegistryLoop(Tail(pairs), knowledge_base, ignore, has_glob \/ KeyHasGlob(kvdict.key), new_paths \cup expanded_paths.out)

GetFileStatPair(new_path) == [action |-> "GetFileStat", request |-> [NoRequest EXCEPT !.cls = "GetFileStatRequest", !.pathspec = new_path, !.pathtype = "REGISTRY"]]

\* a request is emitted for one of the paths only
RegistryEmitOne(loop) == IF loop.has_glob \/ loop.new_paths = {} THEN {Resolved(<<>>)} ELSE {Resolved(<<GetFileStatPair(new_path)>>) : new_path \in loop.new_paths}

\* what the generator does once the loop is over: line 212 "if has_glob: pass"
RegistryEmit(loop) == IF loop.has_glob THEN {Resolved(<<>>)} ELSE {Resolved([n \in 1..Len(order) |-> GetFileStatPair(order[n])]) : order \in Orderings(loop.new_paths)}

_ProcessRegistryValueSource(args, knowledge_base, ignore_interpolation_errors) == LET loop == RegistryLoop(args.key_value_pairs, knowledge_base, ignore_interpolation_errors, FALSE, {}) IN IF loop.raised # NoError THEN {Raised(loop.raised)} ELSE RegistryEmit(loop)

\* the nested pass starts whatever the path type is
_ProcessArtifactFilesSourceUnchecked(args) == {[raised |-> NoError, pending |-> <<>>, nested |-> TRUE]}

\* the generator stops at the nested _ProcessSources loop; the download pair
\* is built when that loop is over
_ProcessArtifactFilesSource(args) == IF ~IsOSPathType(args) THEN {Raised(OnlyOSPathType)} ELSE {[raised |-> NoError, pending |-> <<>>, nested |-> TRUE]}

DownloadPair(paths, path_type) == [action |-> "FileFinderOS", request |-> [NoRequest EXCEPT !.cls = "FileFinderArgs", !.paths = paths, !.pathtype = path_type, !.action = "DOWNLOAD"]]

\* the handler the switch holds for a source type
SourceTypeAction(args, knowledge_base, ignore) == CASE args.type = "COMMAND" -> _ProcessCommandSource(args) [] args.type \in {"DIRECTORY", "GREP", "REGISTRY_KEY"} -> _NotImplemented(args) [] args.type = "FILE" -> _ProcessFileSource(args) [] args.type = "REGISTRY_VALUE" -> _ProcessRegistryValueSource(args, knowledge_base, ignore) [] args.type = "WMI" -> _ProcessWmiSource(args, knowledge_base, ignore) [] args.type = "ARTIFACT_FILES" -> _ProcessArtifactFilesSource(args) [] args.type = "GRR_CLIENT_ACTION" -> _ProcessClientActionSource(args)

\* the outcomes of starting the generator _ParseSourceType(args)
_ParseSourceType(args, knowledge_base, ignore) == IF args.type \notin SwitchTypes THEN {Raised(IncorrectSourceType)} ELSE SourceTypeAction(args, knowledge_base, ignore)

(* ----------------------- actions and responses ------------------------- *)

\* the class of the responses an action sends
ResponseClass(action) == CASE action = "ExecuteCommand" -> "ExecuteResponse" [] action = "FileFinderOS" -> "FileFinderResult" [] action = "GetFileStat" -> "StatEntry" [] action = "WmiQuery" -> "Dict" [] action = "GetHostname" -> "DataBlob" [] action = "ListProcesses" -> "Process" [] action = "ListNetworkConnections" -> "NetworkConnection" [] action = "EnumerateInterfaces" -> "Interface" [] action = "EnumerateUsers" -> "User"

\* the actions that send exactly one response when they do not raise
SingleResponseActions == {"ExecuteCommand", "GetFileStat", "GetHostname"}

\* how many responses one action.Start(request) can produce: one for the
\* single-response actions, none for a file finder given no path
ResponseCounts(pair) == IF pair.action \in SingleResponseActions THEN {1} ELSE IF pair.action = "FileFinderOS" /\ pair.request.paths = <<>> THEN {0} ELSE 0..MaxResponses

\* the responses of one action.Start(request) that produces count of them
Responses(pair, count) == [n \in 1..count |-> [cls |-> ResponseClass(pair.action), request |-> pair.id, n |-> n]]

\* the fields set on a value of a class
Fields(cls) == CASE cls = "FileFinderResult" -> {"stat_entry"} [] cls = "StatEntry" -> {"pathspec"} [] cls = "PathSpec" -> {"path"} [] OTHER -> {}

FieldClass(field) == CASE field = "stat_entry" -> "StatEntry" [] field = "pathspec" -> "PathSpec" [] field = "path" -> "unicode"

\* the path string a response carries
ResponsePath(response) == ToString(<<response.request, response.n>>)

_ExtractPath(response, pathspec_attribute) == LET selected == IF pathspec_attribute # None /\ pathspec_attribute \in Fields(response.cls) THEN FieldClass(pathspec_attribute) ELSE response.cls path_specification == IF "pathspec" \in Fields(selected) THEN "PathSpec" ELSE selected path == IF "path" \in Fields(path_specification) THEN "unicode" ELSE path_specification IN IF path = "unicode" THEN ResponsePath(response) ELSE None

(* ------------------------------ parsers -------------------------------- *)

Parser(name, base, process_together, yields) == [name |-> name, base |-> base, process_together |-> process_together, yields |-> yields]

\* what parse_method returns: the records, each with the arguments it was given
ParseMethod(processor_obj, response, knowledge_base) == [raised |-> NoError, out |-> [j \in 1..processor_obj.yields |-> [cls |-> processor_obj.name, response |-> response, knowledge_base |-> knowledge_base, j |-> j]]]

\* Python's None where a knowledge base is expected (lines 259 and 266)
NoneForKnowledgeBase == [none |-> TRUE]

ParseFailed(error) == [raised |-> error, out |-> <<>>]

ParseResponse(processor_obj, response, knowledge_base) == CASE processor_obj.base = "CommandParser" -> (IF response.cls = "ExecuteResponse" THEN ParseMethod(processor_obj, response, knowledge_base) ELSE ParseFailed(AttributeError)) [] processor_obj.base = "WMIQueryParser" -> ParseMethod(processor_obj, response, NoneForKnowledgeBase) [] processor_obj.base = "FileParser" -> (IF processor_obj.process_together THEN ParseFailed(NotImplementedError) ELSE IF "pathspec" \in Fields(response.cls) THEN ParseMethod(processor_obj, response, NoneForKnowledgeBase) ELSE ParseFailed(AttributeError)) [] processor_obj.base \in {"RegistryParser", "RekallPluginParser", "RegistryValueParser", "GenericResponseParser", "GrepParser"} -> ParseMethod(processor_obj, response, knowledge_base) [] processor_obj.base = "ArtifactFilesParser" -> ParseFailed(NotImplementedError) [] OTHER -> ParseFailed(UnsupportedParser)

(* ---------------------------- _RunClientAction ------------------------- *)

\* the loop over processors for one response
RECURSIVE ProcessorLoop(_, _, _, _)
ProcessorLoop(processors, response, knowledge_base, saved_responses) == IF processors = <<>> THEN [raised |-> NoError, saved_responses |-> saved_responses] ELSE LET processor_obj == Head(processors) IN IF processor_obj.process_together THEN [raised |-> NotImplementedError, saved_responses |-> saved_responses] ELSE LET res == ParseResponse(processor_obj, response, knowledge_base) IN IF res.raised # NoError THEN [raised |-> res.raised, saved_responses |-> saved_responses] ELSE ProcessorLoop(Tail(processors), response, knowledge_base, saved_responses \o res.out)

\* the loop over the responses of action.Start(request)
RECURSIVE ResponseLoop(_, _, _, _)
ResponseLoop(responses, processors, knowledge_base, saved_responses) == IF responses = <<>> THEN [raised |-> NoError, saved_responses |-> saved_responses] ELSE IF processors # <<>> THEN (LET step == ProcessorLoop(processors, Head(responses), knowledge_base, saved_responses) IN IF step.raised # NoError THEN step ELSE ResponseLoop(Tail(responses), processors, knowledge_base, step.saved_responses)) ELSE ResponseLoop(Tail(responses), processors, knowledge_base, Append(saved_responses, Head(responses)))

\* the processors are not looked at: every response is kept raw
_RunClientActionRaw(responses, processors, knowledge_base) == ResponseLoop(responses, <<>>, knowledge_base, <<>>)

_RunClientAction(responses, processors, knowledge_base) == ResponseLoop(responses, processors, knowledge_base, <<>>)

\* the results of a source_result_list, last response first
ActionResultsReversed(source_result_list) == [n \in 1..Len(source_result_list) |-> [type |-> source_result_list[Len(source_result_list) + 1 - n].cls, value |-> source_result_list[Len(source_result_list) + 1 - n]]]

\* lines 58-62: one ClientActionResult per element of a source_result_list
ActionResults(source_result_list) == [n \in 1..Len(source_result_list) |-> [type |-> source_result_list[n].cls, value |-> source_result_list[n]]]

\* lines 126-129: the paths extracted from a nested source_result_list
RECURSIVE ExtractedPaths(_, _)
ExtractedPaths(source_result_list, pathspec_attribute) == IF source_result_list = <<>> THEN <<>> ELSE LET path == _ExtractPath(Head(source_result_list), pathspec_attribute) rest == ExtractedPaths(Tail(source_result_list), pathspec_attribute) IN IF path # None THEN <<path>> \o rest ELSE rest

(* ------------------------- the inputs of a run ------------------------- *)

CommandSource == [Source("COMMAND") EXCEPT !.cmd = "echo", !.args = <<"hi">>]

FileSource(path_type) == [Source("FILE") EXCEPT !.path_type = path_type, !.paths = <<"/etc/passwd", "/etc/hosts">>]

ClientActionSource(client_action) == [Source("GRR_CLIENT_ACTION") EXCEPT !.client_action = client_action]

WmiSource(query) == [Source("WMI") EXCEPT !.query = query, !.base_object = "winmgmts:"]

RegistryValueSource(key_value_pairs) == [Source("REGISTRY_VALUE") EXCEPT !.key_value_pairs = key_value_pairs]

ArtifactFilesSource(path_type, artifact_sources) == [Source("ARTIFACT_FILES") EXCEPT !.path_type = path_type, !.pathspec_attribute = "stat_entry", !.artifact_sources = artifact_sources]

RunKey == <<"HKLM", Sep, "Run">>

\* two pairs that join to the same path, and one that is interpolated
PlainPairs == <<[key |-> RunKey, value |-> <<"x">>], [key |-> RunKey \o <<Sep, "x">>, value |-> <<>>], [key |-> <<"%%environ_systemroot%%">>, value |-> <<"y">>]>>

StarPairs == <<[key |-> <<"HKLM", Sep, "*">>, value |-> <<"x">>], [key |-> RunKey, value |-> <<"x">>]>>

GroupingPairs == <<[key |-> RunKey, value |-> <<"x">>], [key |-> <<"HKLM", Sep, "{a,b}">>, value |-> <<>>]>>

RunPairs == <<[key |-> RunKey, value |-> <<"x">>]>>

RunOncePairs == <<[key |-> <<"HKLM", Sep, "RunOnce">>, value |-> <<>>]>>

MissingPairs == <<[key |-> RunKey, value |-> <<"x">>], [key |-> <<"HKLM", Sep, "%%environ_temp%%">>, value |-> <<>>]>>

RootQuery == <<"SELECT * FROM CIM_DataFile WHERE drive=", "%%environ_systemroot%%">>

TempQuery == <<"SELECT * FROM CIM_DataFile WHERE path=", "%%environ_temp%%">>

Artifact(name, sources) == [name |-> name, sources |-> sources]

ArtifactCatalogue ==
  {Artifact("Empty", <<>>),
   Artifact("Cmd", <<CommandSource>>),
   Artifact("Hostname", <<ClientActionSource("GetHostname")>>),
   Artifact("CmdFile", <<CommandSource, FileSource("OS")>>),
   Artifact("Wmi", <<WmiSource(RootQuery)>>),
   Artifact("Processes", <<ClientActionSource("ListProcesses")>>),
   Artifact("RegVal", <<RegistryValueSource(PlainPairs)>>),
   Artifact("Files", <<ArtifactFilesSource("OS", <<RegistryValueSource(RunPairs), CommandSource, RegistryValueSource(RunOncePairs)>>)>>),
   Artifact("FilesCmd", <<ArtifactFilesSource("OS", <<CommandSource>>)>>),
   Artifact("CmdDir", <<CommandSource, Source("DIRECTORY")>>),
   Artifact("Grep", <<ArtifactFilesSource("OS", <<CommandSource, Source("GREP")>>)>>),
   Artifact("RegKey", <<ClientActionSource("EnumerateUsers"), Source("REGISTRY_KEY")>>),
   Artifact("FileTsk", <<FileSource("TSK")>>),
   Artifact("RegStar", <<RegistryValueSource(StarPairs)>>),
   Artifact("RegGrouping", <<RegistryValueSource(GroupingPairs)>>),
   Artifact("RegMissing", <<RegistryValueSource(MissingPairs)>>),
   Artifact("WmiMissing", <<WmiSource(TempQuery)>>),
   Artifact("FilesReg", <<ArtifactFilesSource("REGISTRY", <<CommandSource>>)>>),
   Artifact("StatFS", <<ClientActionSource("ListNetworkConnections"), ClientActionSource("StatFS")>>),
   Artifact("Group", <<ClientActionSource("EnumerateInterfaces"), Source("ARTIFACT_GROUP")>>)}

\* parser.Parser.GetClassesByArtifact(name)
GetClassesByArtifact(name) == CASE name = "Cmd" -> <<Parser("EchoParser", "CommandParser", FALSE, 2)>> [] name = "Wmi" -> <<Parser("WmiParser", "WMIQueryParser", FALSE, 1), Parser("GenericParser", "GenericResponseParser", FALSE, 2)>> [] name = "Processes" -> <<Parser("ProcessesParser", "GenericResponseParser", TRUE, 1)>> [] name = "RegVal" -> <<Parser("StatParser", "FileParser", FALSE, 1)>> [] name = "Files" -> <<Parser("DownloadParser", "GenericResponseParser", FALSE, 1)>> [] OTHER -> <<>>

Inputs == [artifacts : SeqsUpTo(ArtifactCatalogue, MaxArtifacts), knowledge_base : {KnowledgeBase}, apply_parsers : BOOLEAN, ignore_interpolation_errors : BOOLEAN]

(* ------------------------------- state --------------------------------- *)

VARIABLES args, pc, index, result, artifact_result, processors, stack, current, error, replies, heartbeats, parsed, yielded, executed, looked_up

vars == <<args, pc, index, result, artifact_result, processors, stack, current, error, replies, heartbeats, parsed, yielded, executed, looked_up>>

\* args:            the ClientArtifactCollectorArgs of the run
\* pc:              where Run is: "Run" (top of the loop over args.artifacts),
\*                  "Progress" (self.Progress() returned), "Collect" (inside
\*                  _CollectArtifact), "Done" (after SendReply), "Raised"
\* index:           how many artifacts the loop of Run has taken
\* result:          result.collected_artifacts
\* artifact_result: the CollectedArtifact of the artifact being collected
\* processors:      the processors of the artifact being collected
\* stack:           the active _ProcessSources generators, outermost first
\* current:         the (action, request) pair _ParseSourceType yielded last,
\*                  until _RunClientAction has run it
\* error:           the exception that left Run
\* replies:         what SendReply was called with, in order
\* heartbeats:      the artifacts self.Progress() was called for, in order
\* parsed:          the sources _ParseSourceType was started for, in order
\* yielded:         the pairs _ParseSourceType yielded, in order
\* executed:        the calls of action.Start, in order, each with the pair's
\*                  id and the responses it produced
\* looked_up:       the names GetClassesByArtifact was called with, in order

\* the generator starts at its second source when there is one
FrameFromSecond(sources, pos) == [sources |-> sources, k |-> IF Len(sources) >= 2 THEN 1 ELSE 0, gen |-> "idle", pending |-> <<>>, n |-> 0, paths |-> <<>>, pos |-> pos]

Frame(sources, pos) == [sources |-> sources, k |-> 0, gen |-> "idle", pending |-> <<>>, n |-> 0, paths |-> <<>>, pos |-> pos]

NoArtifactResult == [name |-> "", action_results |-> <<>>]

Init == /\ args \in Inputs /\ pc = "Run" /\ index = 0 /\ result = <<>> /\ artifact_result = NoArtifactResult /\ processors = <<>> /\ stack = <<>> /\ current = NoPair /\ error = NoError /\ replies = <<>> /\ heartbeats = <<>> /\ parsed = <<>> /\ yielded = <<>> /\ executed = <<>> /\ looked_up = <<>>

\* the exception is caught at the artifact and the loop of Run goes on
RaiseIsolated(e) == /\ pc' = "Run" /\ error' = e /\ stack' = <<>> /\ current' = NoPair

\* an exception leaves every generator and Run
Raise(e) == /\ pc' = "Raised" /\ error' = e /\ stack' = <<>> /\ current' = NoPair

Top == Last(stack)

SetTop(frame) == [stack EXCEPT ![Len(stack)] = frame]

\* the source the generator on top of the stack is at
TopSource == Top.sources[Top.k + 1]

\* the position of a source: artifact, then the source indexes down the nesting
TopSourcePos == Top.pos \o <<Top.k + 1>>

(* ------------------------------ actions -------------------------------- *)

\* the loop of Run is left after the first artifact
LoopDoneEarly == index >= 1 \/ Len(args.artifacts) = 0

\* the loop of Run has taken every artifact
LoopDone == index = Len(args.artifacts)

\* self.Progress() is called before the loop, not in it
HeartbeatOnce == IF index = 0 THEN Append(heartbeats, index + 1) ELSE heartbeats

\* the heartbeats once self.Progress() was called for the next artifact
Heartbeat == Append(heartbeats, index + 1)

\* Run, line 40: self.Progress() returns
Progress == /\ pc = "Run" /\ ~LoopDone /\ index' = index + 1 /\ heartbeats' = Heartbeat /\ pc' = "Progress" /\ UNCHANGED <<args, looked_up, result, artifact_result, processors, stack, current, error, replies, parsed, yielded, executed>>

\* Run, line 40: self.Progress() raises
ProgressAbort == /\ pc = "Run" /\ ~LoopDone /\ index' = index + 1 /\ heartbeats' = Heartbeat /\ Raise(ProgressAborted) /\ UNCHANGED <<args, looked_up, result, artifact_result, processors, replies, parsed, yielded, executed>>

\* the parsers are looked up whatever apply_parsers says
ProcessorsAlways(artifact, apply_parsers) == GetClassesByArtifact(artifact.name)

\* the processors _CollectArtifact works with
Processors(artifact, apply_parsers) == IF apply_parsers THEN GetClassesByArtifact(artifact.name) ELSE <<>>

\* the lookups once _CollectArtifact has set its processors: line 54 is
\* reached only under apply_parsers
LookedUp(artifact, apply_parsers) == IF apply_parsers THEN Append(looked_up, artifact.name) ELSE looked_up

\* _CollectArtifact, lines 50-56: up to the first next() on _ProcessSources
CollectArtifact == /\ pc = "Progress" /\ artifact_result' = [name |-> args.artifacts[index].name, action_results |-> <<>>] /\ processors' = Processors(args.artifacts[index], args.apply_parsers) /\ looked_up' = LookedUp(args.artifacts[index], args.apply_parsers) /\ stack' = <<Frame(args.artifacts[index].sources, <<index>>)>> /\ pc' = "Collect" /\ UNCHANGED <<args, index, result, current, error, replies, heartbeats, parsed, yielded, executed>>

\* the stack once the generator of the top source has started
Started(outcome) == IF outcome.nested THEN Append(SetTop([Top EXCEPT !.gen = "nested", !.paths = <<>>]), Frame(TopSource.artifact_sources, TopSourcePos)) ELSE SetTop([Top EXCEPT !.gen = "active", !.pending = outcome.pending, !.n = 0])

\* _ProcessSources takes the next source and starts _ParseSourceType on it
ParseSourceType == /\ pc = "Collect" /\ current = NoPair /\ Top.gen = "idle" /\ Top.k < Len(Top.sources) /\ parsed' = Append(parsed, TopSourcePos) /\ UNCHANGED <<args, looked_up, index, result, artifact_result, processors, replies, heartbeats, yielded, executed>> /\ \E outcome \in _ParseSourceType(TopSource, args.knowledge_base, args.ignore_interpolation_errors) : IF outcome.raised # NoError THEN Raise(outcome.raised) ELSE (stack' = Started(outcome) /\ UNCHANGED <<pc, error, current>>)

\* the generator of the top source yields its next (action, request)
YieldRequest == /\ pc = "Collect" /\ current = NoPair /\ Top.gen = "active" /\ Top.pending # <<>> /\ current' = [id |-> TopSourcePos \o <<Top.n + 1>>, action |-> Head(Top.pending).action, request |-> Head(Top.pending).request] /\ stack' = SetTop([Top EXCEPT !.pending = Tail(Top.pending), !.n = Top.n + 1]) /\ yielded' = Append(yielded, current') /\ UNCHANGED <<args, looked_up, pc, index, result, artifact_result, processors, error, replies, heartbeats, parsed, executed>>

\* the nested pass works with the processors of the artifact
FrameProcessorsShared == processors

\* the processors _ProcessSources was called with: [] in a nested pass
FrameProcessors == IF Len(stack) = 1 THEN processors ELSE <<>>

\* the ARTIFACT_FILES source whose generator consumes the top frame
EnclosingSource == stack[Len(stack) - 1].sources[stack[Len(stack) - 1].k + 1]

\* the stack after the ARTIFACT_FILES generator took a source_result_list
PathsAdded(source_result_list) == [stack EXCEPT ![Len(stack) - 1].paths = @ \o ExtractedPaths(source_result_list, EnclosingSource.pathspec_attribute)]

\* the pair just executed is kept, so that it is run again
AfterRunRetry == current

\* the pair just executed is dropped: _ProcessSources runs each yielded pair once
AfterRun == NoPair

\* one call of action.Start(request) and the responses it produced
Execution(pair, responses) == [id |-> pair.id, action |-> pair.action, responses |-> responses]

\* _RunClientAction on the yielded pair, and the consumer of its list
RunClientAction == /\ pc = "Collect" /\ current # NoPair /\ UNCHANGED <<args, looked_up, index, result, processors, replies, heartbeats, parsed, yielded>> /\ \E count \in ResponseCounts(current) : /\ executed' = Append(executed, Execution(current, Responses(current, count))) /\ LET run == _RunClientAction(Responses(current, count), FrameProcessors, args.knowledge_base) IN IF run.raised # NoError THEN (Raise(run.raised) /\ UNCHANGED artifact_result) ELSE (current' = AfterRun /\ artifact_result' = (IF Len(stack) = 1 THEN [artifact_result EXCEPT !.action_results = @ \o ActionResults(run.saved_responses)] ELSE artifact_result) /\ stack' = (IF Len(stack) = 1 THEN stack ELSE PathsAdded(run.saved_responses)) /\ UNCHANGED <<pc, error>>)

\* action.Start(request) raises
ActionRaises == /\ pc = "Collect" /\ current # NoPair /\ executed' = Append(executed, Execution(current, <<>>)) /\ Raise(ActionFailed) /\ UNCHANGED <<args, looked_up, index, result, artifact_result, processors, replies, heartbeats, parsed, yielded>>

\* the generator of the top source is exhausted
EndSource == /\ pc = "Collect" /\ current = NoPair /\ Top.gen = "active" /\ Top.pending = <<>> /\ stack' = SetTop([Top EXCEPT !.gen = "idle", !.k = Top.k + 1]) /\ UNCHANGED <<args, looked_up, pc, index, result, artifact_result, processors, current, error, replies, heartbeats, parsed, yielded, executed>>

\* the ARTIFACT_FILES generator once its loop is over: one download pair to yield
Downloading(frame, source) == [frame EXCEPT !.gen = "active", !.n = 0, !.pending = <<DownloadPair(frame.paths, source.path_type)>>]

\* lines 131-136: the nested _ProcessSources is exhausted, the download pair is next
EndNested == /\ pc = "Collect" /\ current = NoPair /\ Len(stack) > 1 /\ Top.gen = "idle" /\ Top.k = Len(Top.sources) /\ stack' = [Front(stack) EXCEPT ![Len(stack) - 1] = Downloading(stack[Len(stack) - 1], EnclosingSource)] /\ UNCHANGED <<args, looked_up, pc, index, result, artifact_result, processors, current, error, replies, heartbeats, parsed, yielded, executed>>

\* the collected artifact is put in front
CollectedInFront(collected_artifacts, collected_artifact) == <<collected_artifact>> \o collected_artifacts

\* line 43: result.collected_artifacts.append(collected_artifact)
Collected(collected_artifacts, collected_artifact) == Append(collected_artifacts, collected_artifact)

\* line 64 and line 43: _CollectArtifact returns, Run appends
ReturnArtifact == /\ pc = "Collect" /\ current = NoPair /\ Len(stack) = 1 /\ Top.gen = "idle" /\ Top.k = Len(Top.sources) /\ result' = Collected(result, artifact_result) /\ stack' = <<>> /\ pc' = "Run" /\ UNCHANGED <<args, looked_up, index, artifact_result, processors, current, error, replies, heartbeats, parsed, yielded, executed>>

\* line 47
SendReply == /\ pc = "Run" /\ LoopDone /\ replies' = Append(replies, result) /\ pc' = "Done" /\ UNCHANGED <<args, looked_up, index, result, artifact_result, processors, stack, current, error, heartbeats, parsed, yielded, executed>>

Next == \/ Progress \/ ProgressAbort \/ CollectArtifact \/ ParseSourceType \/ YieldRequest \/ RunClientAction \/ ActionRaises \/ EndSource \/ EndNested \/ ReturnArtifact \/ SendReply

Spec == Init /\ [][Next]_vars

(* ------------------------- reading the logs ---------------------------- *)

RECURSIVE SourceIn(_, _)
SourceIn(sources, path) == IF Len(path) = 1 THEN sources[path[1]] ELSE SourceIn(sources[path[1]].artifact_sources, Tail(path))

\* the source at a position <<artifact, source, nested source, ...>>
SourceAt(pos) == SourceIn(args.artifacts[pos[1]].sources, Tail(pos))

IsPrefix(p, q) == Len(p) <= Len(q) /\ SubSeq(q, 1, Len(p)) = p

\* the source parsed as n-th ended the run with error e
FailedWith(n, e) == n = Len(parsed) /\ pc = "Raised" /\ error = e

\* no pair of the source at pos was yielded or executed, at any depth
NothingRunFor(pos) == (\A y \in 1..Len(yielded) : ~IsPrefix(pos, yielded[y].id)) /\ (\A x \in 1..Len(executed) : ~IsPrefix(pos, executed[x].id))

ExecutedCount(id) == Cardinality({x \in 1..Len(executed) : executed[x].id = id})

\* the responses of the executions of artifact i, in the order of the log;
\* those of nested passes too when nested_too
RECURSIVE ResponsesOf(_, _, _)
ResponsesOf(log, i, nested_too) == IF log = <<>> THEN <<>> ELSE (IF Head(log).id[1] = i /\ (nested_too \/ Len(Head(log).id) = 3) THEN Head(log).responses ELSE <<>>) \o ResponsesOf(Tail(log), i, nested_too)

Values(action_results) == [n \in 1..Len(action_results) |-> action_results[n].value]

NoParsers(i) == Processors(args.artifacts[i], args.apply_parsers) = <<>>

\* the executions of the artifacts' own sources are in source order, then request order
InDeclaredOrder ==
  \A a, b \in 1..Len(executed) : (a < b /\ Len(executed[a].id) = 3 /\ Len(executed[b].id) = 3) =>
    (\/ executed[a].id[1] < executed[b].id[1]
     \/ (executed[a].id[1] = executed[b].id[1] /\ executed[a].id[2] < executed[b].id[2])
     \/ (executed[a].id[1] = executed[b].id[1] /\ executed[a].id[2] = executed[b].id[2] /\ executed[a].id[3] < executed[b].id[3]))

\* every source of artifact i, nested ones too, was resolved, and every pair
\* yielded for it was executed
FullyProcessed(i) ==
  /\ i <= Len(result)
  /\ (\A k \in 1..Len(args.artifacts[i].sources) : <<i, k>> \in Range(parsed))
  /\ (\A p \in Range(parsed) : (p[1] = i /\ SourceAt(p).type = "ARTIFACT_FILES") => (\A k \in 1..Len(SourceAt(p).artifact_sources) : p \o <<k>> \in Range(parsed)))
  /\ (\A y \in 1..Len(yielded) : (yielded[y].id[1] = i) => (ExecutedCount(yielded[y].id) >= 1))

HasGlobKey(source) == \E n \in 1..Len(source.key_value_pairs) : KeyHasGlob(source.key_value_pairs[n].key)

HasProcessTogether(i) == \E n \in 1..Len(Processors(args.artifacts[i], args.apply_parsers)) : Processors(args.artifacts[i], args.apply_parsers)[n].process_together

\* the records one response yields over all processors
RECURSIVE YieldsPerResponse(_)
YieldsPerResponse(procs) == IF procs = <<>> THEN 0 ELSE Head(procs).yields + YieldsPerResponse(Tail(procs))

\* the processor, and the number of its record, at an offset among the
\* records of one response
RECURSIVE ParserAt(_, _)
ParserAt(procs, offset) == IF offset < Head(procs).yields THEN [name |-> Head(procs).name, j |-> offset + 1] ELSE ParserAt(Tail(procs), offset - Head(procs).yields)

IsParsed(value) == "response" \in DOMAIN value

\* the results of artifact i are the records of the given responses, by
\* response first, by processor within a response
RoutedThrough(i, responses) ==
  LET procs == Processors(args.artifacts[i], args.apply_parsers)
      kept == result[i].action_results
      per == YieldsPerResponse(procs)
  IN /\ Len(kept) = Len(responses) * per
     /\ (\A n \in 1..Len(kept) :
           /\ IsParsed(kept[n].value)
           /\ kept[n].value.response = responses[((n - 1) \div per) + 1]
           /\ kept[n].value.cls = ParserAt(procs, (n - 1) % per).name
           /\ kept[n].value.j = ParserAt(procs, (n - 1) % per).j
           /\ kept[n].type = kept[n].value.cls)

(* ------------------------------ claims --------------------------------- *)

\* C1: once an error has left the run, the run has ended (no step follows)
\* and no reply was sent, whatever was collected before the error.
C1_FailFastNoPartialResult == error # NoError => (pc = "Raised" /\ replies = <<>> /\ ~ENABLED Next)

\* a run that failed at a source of its second artifact, after a first
\* artifact was collected with results
C1_Witness == error # NoError /\ Len(result) >= 1 /\ result[1].action_results # <<>> /\ parsed # <<>> /\ Last(parsed)[1] = 2

\* C2, as the claim states it: a REGISTRY_VALUE source with a glob marker in
\* a key always ends resolution with NotImplementedError (the claim's
\* UnimplementedSourceFeature); it never resolves to zero requests.
C2_RegistryGlobFails == \A n \in 1..Len(parsed) : (SourceAt(parsed[n]).type = "REGISTRY_VALUE" /\ HasGlobKey(SourceAt(parsed[n]))) => FailedWith(n, NotImplementedError)

\* C3, as the claim states it: an action run with a process-together parser
\* among the processors ends with NotImplementedError (the claim's
\* UnimplementedParserMode) for every number of responses, zero included
\* (unless the action itself raised).
C3_ProcessTogetherFails == \A x \in 1..Len(executed) : (Len(executed[x].id) = 3 /\ HasProcessTogether(executed[x].id[1]) /\ error # ActionFailed) => (pc = "Raised" /\ error = NotImplementedError)

\* C4: a run that completes sent one result holding one CollectedArtifact
\* per input artifact, in input order, the i-th with the i-th artifact's name.
C4_OnePerArtifactInOrder == pc = "Done" => (Len(replies) = 1 /\ Len(replies[1]) = Len(args.artifacts) /\ (\A i \in 1..Len(args.artifacts) : replies[1][i].name = args.artifacts[i].name))

\* a completed run over two artifacts of different names
C4_Witness == pc = "Done" /\ Len(args.artifacts) = 2 /\ args.artifacts[1].name # args.artifacts[2].name /\ Len(replies) = 1

\* C5, as the claim states it: with no parsers, the results of a collected
\* artifact are exactly the raw responses of all the requests executed for
\* it, those of the nested pass of an ARTIFACT_FILES source included.
C5_AllExecutedResponsesKept == \A i \in 1..Len(result) : NoParsers(i) => (Values(result[i].action_results) = ResponsesOf(executed, i, TRUE))

\* C5, amended: with no parsers, the results of a collected artifact are
\* exactly the raw responses of the requests its own sources yielded (for an
\* ARTIFACT_FILES source the download request only), each tagged with its
\* class, in source order, then request order, then response order.
C5_OwnResponsesKeptInOrder ==
  /\ InDeclaredOrder
  /\ (\A i \in 1..Len(result) : NoParsers(i) =>
        (/\ Values(result[i].action_results) = ResponsesOf(executed, i, FALSE)
         /\ (\A n \in 1..Len(result[i].action_results) : result[i].action_results[n].type = result[i].action_results[n].value.cls)))

\* a collected artifact without parsers whose results come from two sources,
\* the second of which produced two responses
C5_Witness == \E i \in 1..Len(result) : NoParsers(i) /\ Len(result[i].action_results) >= 3 /\ result[i].action_results[1].value.request[2] = 1 /\ result[i].action_results[2].value.request[2] = 2 /\ result[i].action_results[3].value.request[2] = 2

\* C6: at most one reply is sent, and when it is sent every input artifact
\* has been fully processed: all its sources resolved, all its pairs executed.
C6_NoIncrementalEmission ==
  /\ Len(replies) <= 1
  /\ (replies # <<>> =>
        (/\ Len(result) = Len(args.artifacts)
         /\ replies[1] = result
         /\ stack = <<>>
         /\ current = NoPair
         /\ (\A i \in 1..Len(args.artifacts) : FullyProcessed(i))))

\* the reply of a run over two artifacts that executed requests for both
C6_Witness == replies # <<>> /\ Len(args.artifacts) = 2 /\ (\E x \in 1..Len(executed) : executed[x].id[1] = 1) /\ (\E x \in 1..Len(executed) : executed[x].id[1] = 2)

\* C7: every yielded pair, nested ones included, is executed at most once,
\* only yielded pairs are executed, and when the run completes every yielded
\* pair has been executed exactly once.
C7_ExactlyOnce ==
  /\ (\A y \in 1..Len(yielded) : ExecutedCount(yielded[y].id) <= 1)
  /\ (\A x \in 1..Len(executed) : \E y \in 1..Len(yielded) : yielded[y].id = executed[x].id)
  /\ (\A y, z \in 1..Len(yielded) : (yielded[y].id = yielded[z].id) => (y = z))
  /\ (pc = "Done" => (\A y \in 1..Len(yielded) : ExecutedCount(yielded[y].id) = 1))

\* a completed run that executed the nested pairs of an ARTIFACT_FILES
\* source and its download pair
C7_Witness == pc = "Done" /\ (\E x \in 1..Len(executed) : Len(executed[x].id) = 4) /\ (\E x \in 1..Len(executed) : executed[x].action = "FileFinderOS" /\ Len(executed[x].id) = 3) /\ Len(executed) >= 3

\* C8: a FILE source whose path type is not OS ends the run with the
\* ValueError "Only supported path type is OS." (the claim's
\* UnsupportedPathType), and no pair was yielded or executed for it.
C8_FilePathTypeChecked == \A n \in 1..Len(parsed) : (SourceAt(parsed[n]).type = "FILE" /\ SourceAt(parsed[n]).path_type # "OS") => (FailedWith(n, OnlyOSPathType) /\ NothingRunFor(parsed[n]))

\* a run that failed at a FILE source with another path type
C8_Witness == pc = "Raised" /\ error = OnlyOSPathType /\ parsed # <<>> /\ SourceAt(Last(parsed)).type = "FILE" /\ SourceAt(Last(parsed)).path_type # "OS"

\* C9: one heartbeat per artifact the loop has taken, in input order; nothing
\* is resolved, yielded or executed for an artifact before its heartbeat; and
\* when the heartbeat raises, nothing is resolved for that artifact or a
\* later one and no reply is sent.
C9_Heartbeats ==
  /\ Len(heartbeats) = index
  /\ (\A n \in 1..Len(heartbeats) : heartbeats[n] = n)
  /\ (\A p \in 1..Len(parsed) : parsed[p][1] <= Len(heartbeats))
  /\ (\A y \in 1..Len(yielded) : yielded[y].id[1] <= Len(heartbeats))
  /\ (\A x \in 1..Len(executed) : executed[x].id[1] <= Len(heartbeats))
  /\ Len(result) <= Len(heartbeats)
  /\ (pc \in {"Progress", "Collect"} => Len(result) = Len(heartbeats) - 1)
  /\ (error = ProgressAborted => (/\ replies = <<>>
                                  /\ ~ENABLED Next
                                  /\ (\A p \in 1..Len(parsed) : parsed[p][1] < Len(heartbeats))))

\* the heartbeat of the second artifact raised after the first was collected
C9_Witness == error = ProgressAborted /\ heartbeats = <<1, 2>> /\ Len(result) = 1 /\ executed # <<>>

\* C10: a DIRECTORY, GREP or REGISTRY_KEY source ends the run with
\* NotImplementedError (the claim's UnimplementedSourceFeature) and nothing
\* is run for it; a source whose type the switch does not hold ends the run
\* with the ValueError "Incorrect source type" (the claim's
\* UnsupportedSourceKind); no source is passed over without being resolved.
C10_UnimplementedKindsFail ==
  /\ (\A n \in 1..Len(parsed) : (SourceAt(parsed[n]).type \in {"DIRECTORY", "GREP", "REGISTRY_KEY"}) => (FailedWith(n, NotImplementedError) /\ NothingRunFor(parsed[n])))
  /\ (\A n \in 1..Len(parsed) : (SourceAt(parsed[n]).type \notin SwitchTypes) => (FailedWith(n, IncorrectSourceType) /\ NothingRunFor(parsed[n])))
  /\ (\A d \in 1..Len(stack) : \A k \in 1..stack[d].k : stack[d].pos \o <<k>> \in Range(parsed))
  /\ (\A i \in 1..Len(result) : \A k \in 1..Len(args.artifacts[i].sources) : <<i, k>> \in Range(parsed))

\* a run that failed at a DIRECTORY source after running the source before it
C10_Witness == pc = "Raised" /\ error = NotImplementedError /\ parsed # <<>> /\ SourceAt(Last(parsed)).type = "DIRECTORY" /\ executed # <<>>

\* C11, as the claim states it: for a collected artifact with parsers, none
\* process-together, the results are the parser records of the responses of
\* every request executed for it, those of a nested pass included.
C11_EveryResponseRouted == \A i \in 1..Len(result) : (~NoParsers(i) /\ ~HasProcessTogether(i)) => RoutedThrough(i, ResponsesOf(executed, i, TRUE))

\* C11, amended: for a collected artifact with parsers, none
\* process-together, the results are exactly the parser records of the
\* responses of the requests its own sources yielded (for an ARTIFACT_FILES
\* source the download request only): no raw response is kept, and the
\* records are ordered by response first, by parser in registration order
\* within a response.
C11_OwnResponsesRouted == \A i \in 1..Len(result) : (~NoParsers(i) /\ ~HasProcessTogether(i)) => RoutedThrough(i, ResponsesOf(executed, i, FALSE))

\* a collected artifact with two parsers whose request produced two responses
C11_Witness == \E i \in 1..Len(result) : Len(Processors(args.artifacts[i], args.apply_parsers)) = 2 /\ ~HasProcessTogether(i) /\ Len(ResponsesOf(executed, i, FALSE)) = 2 /\ Len(result[i].action_results) = 6

\* the results kept so far for artifact i: collected, or being collected
KeptFor(i) == IF i <= Len(result) THEN result[i].action_results ELSE IF i = index /\ pc = "Collect" THEN artifact_result.action_results ELSE <<>>

AllRaw(action_results) == \A n \in 1..Len(action_results) : ~IsParsed(action_results[n].value) /\ action_results[n].type = action_results[n].value.cls

\* C12: when apply_parsers is false no parser is looked up or invoked, for
\* artifacts with registered parsers too, and every ClientActionResult is a
\* raw response tagged with its class; an artifact without registered
\* parsers gets the same when apply_parsers is true.
C12_NoParsersMeansRaw ==
  /\ (~args.apply_parsers =>
        (/\ looked_up = <<>>
         /\ processors = <<>>
         /\ error \notin {AttributeError, UnsupportedParser}
         /\ (\A i \in 1..index : AllRaw(KeptFor(i)) /\ (i <= Len(result) => Values(result[i].action_results) = ResponsesOf(executed, i, FALSE)))))
  /\ (\A i \in 1..index : GetClassesByArtifact(args.artifacts[i].name) = <<>> =>
        (/\ AllRaw(KeptFor(i))
         /\ ((pc = "Collect" /\ i = index) => processors = <<>>)
         /\ (i <= Len(result) => Values(result[i].action_results) = ResponsesOf(executed, i, FALSE))))

\* without apply_parsers, an artifact that has registered parsers was
\* collected with a result
C12_Witness == ~args.apply_parsers /\ (\E i \in 1..Len(result) : GetClassesByArtifact(args.artifacts[i].name) # <<>> /\ result[i].action_results # <<>>)

\* the pairs yielded for the source at pos, in order
RECURSIVE YieldedFor(_, _)
YieldedFor(log, pos) == IF log = <<>> THEN <<>> ELSE (IF Front(Head(log).id) = pos THEN <<Head(log)>> ELSE <<>>) \o YieldedFor(Tail(log), pos)

\* the deduplicated union of the interpolation outputs of the pairs' paths
UnionOfPaths(source) == UNION {InterpolateKbAttributes(RegistryPath(kvdict), args.knowledge_base, args.ignore_interpolation_errors).out : kvdict \in Range(source.key_value_pairs)}

\* the REGISTRY_VALUE sources without glob markers that were resolved
PlainRegistrySources == {n \in 1..Len(parsed) : SourceAt(parsed[n]).type = "REGISTRY_VALUE" /\ ~HasGlobKey(SourceAt(parsed[n]))}

\* the source parsed as n-th was left: its artifact is collected
SourceDone(n) == parsed[n][1] <= Len(result)

\* C13: for a REGISTRY_VALUE source without glob markers, the requests are
\* file-stat requests with path type REGISTRY, one per distinct path, for
\* paths of the deduplicated union of the interpolation outputs of the
\* pairs' paths; once the source is done every path of the union was
\* requested; and the outcome is the same for every order of the pairs.
C13_RegistryPathsDeduplicated ==
  \A n \in PlainRegistrySources :
    LET source == SourceAt(parsed[n])
        pairs == YieldedFor(yielded, parsed[n])
        paths == {pairs[m].request.pathspec : m \in 1..Len(pairs)}
    IN /\ (\A m \in 1..Len(pairs) : pairs[m].action = "GetFileStat" /\ pairs[m].request.cls = "GetFileStatRequest" /\ pairs[m].request.pathtype = "REGISTRY")
       /\ Cardinality(paths) = Len(pairs)
       /\ paths \subseteq UnionOfPaths(source)
       /\ (SourceDone(n) => paths = UnionOfPaths(source))
       /\ (\A order \in Orderings(Range(source.key_value_pairs)) :
             _ProcessRegistryValueSource([source EXCEPT !.key_value_pairs = order], args.knowledge_base, args.ignore_interpolation_errors)
               = _ProcessRegistryValueSource(source, args.knowledge_base, args.ignore_interpolation_errors))

\* a collected source of three pairs, two of which join to the same path,
\* for which two requests were yielded
C13_Witness == \E n \in PlainRegistrySources : SourceDone(n) /\ Len(SourceAt(parsed[n]).key_value_pairs) = 3 /\ Len(YieldedFor(yielded, parsed[n])) = 2 /\ Cardinality(UnionOfPaths(SourceAt(parsed[n]))) = 2

\* the templates of a WMI or REGISTRY_VALUE source
Templates(source) == IF source.type = "WMI" THEN {source.query} ELSE IF source.type = "REGISTRY_VALUE" THEN {RegistryPath(kvdict) : kvdict \in Range(source.key_value_pairs)} ELSE {}

\* a template of the source references an attribute the knowledge base lacks
HasMissingAttribute(source) == \E template \in Templates(source) : MissingAttribute(template, args.knowledge_base)

\* what the templates that reference no missing attribute expand to
ResolvableSubset(source) == UNION {Expand(template, args.knowledge_base) : template \in {t \in Templates(source) : ~MissingAttribute(t, args.knowledge_base)}}

\* the query or registry path a yielded pair asks for
Asked(pair) == IF pair.action = "WmiQuery" THEN pair.request.query ELSE pair.request.pathspec

\* C14: a WMI or REGISTRY_VALUE source with a template that references a
\* missing attribute ends the run with KnowledgeBaseInterpolationError (the
\* claim's InterpolationError), nothing run for it, when the run's
\* ignore_interpolation_errors is false; when it is true no run ends with
\* that error and the source's requests are those of the resolvable
\* templates only; the error never comes from another source.
C14_InterpolationFollowsFlag ==
  /\ (args.ignore_interpolation_errors => error # KnowledgeBaseInterpolationError)
  /\ (error = KnowledgeBaseInterpolationError => (parsed # <<>> /\ HasMissingAttribute(SourceAt(Last(parsed)))))
  /\ (\A n \in 1..Len(parsed) : HasMissingAttribute(SourceAt(parsed[n])) =>
        LET source == SourceAt(parsed[n])
            pairs == YieldedFor(yielded, parsed[n])
            asked == {Asked(pairs[m]) : m \in 1..Len(pairs)}
        IN IF ~args.ignore_interpolation_errors
           THEN FailedWith(n, KnowledgeBaseInterpolationError) /\ NothingRunFor(parsed[n])
           ELSE /\ asked \subseteq ResolvableSubset(source)
                /\ ((SourceDone(n) /\ ~HasGlobKey(source)) => asked = ResolvableSubset(source)))

\* under ignore_interpolation_errors, a collected REGISTRY_VALUE source with
\* a pair that references a missing attribute, and a request for the other
C14_Witness == args.ignore_interpolation_errors /\ (\E n \in 1..Len(parsed) : HasMissingAttribute(SourceAt(parsed[n])) /\ SourceDone(n) /\ Len(YieldedFor(yielded, parsed[n])) = 1)

\* the responses of the nested pass of the source at pos, in the order of the log
RECURSIVE NestedResponses(_, _)
NestedResponses(log, pos) == IF log = <<>> THEN <<>> ELSE (IF Len(Head(log).id) > Len(pos) + 1 /\ IsPrefix(pos, Head(log).id) THEN Head(log).responses ELSE <<>>) \o NestedResponses(Tail(log), pos)

\* where in a log the first entry with an id is; 0 when there is none
IndexOf(log, id) == IF \E x \in 1..Len(log) : log[x].id = id THEN CHOOSE x \in 1..Len(log) : log[x].id = id /\ (\A w \in 1..(x - 1) : log[w].id # id) ELSE 0

\* the pairs yielded in the nested pass of the source at pos
NestedYielded(pos) == {y \in 1..Len(yielded) : Len(yielded[y].id) > Len(pos) + 1 /\ IsPrefix(pos, yielded[y].id)}

\* the ARTIFACT_FILES sources with path type OS that were resolved
FilesSources == {n \in 1..Len(parsed) : SourceAt(parsed[n]).type = "ARTIFACT_FILES" /\ SourceAt(parsed[n]).path_type = "OS"}

\* C15: an ARTIFACT_FILES source with path type OS yields at most one pair;
\* it is a file-download request, yielded after every nested source was
\* resolved and every nested pair executed; its paths are those extracted
\* from the raw nested responses (no parser ran on them), in response
\* order, responses without a path left out; and the source of a collected
\* artifact has yielded it, also with no path at all.
C15_NestedThenOneDownload ==
  \A n \in FilesSources :
    LET source == SourceAt(parsed[n])
        pairs == YieldedFor(yielded, parsed[n])
    IN /\ Len(pairs) <= 1
       /\ (SourceDone(n) => Len(pairs) = 1)
       /\ (Len(pairs) = 1 =>
             (/\ pairs[1].action = "FileFinderOS"
              /\ pairs[1].request.action = "DOWNLOAD"
              /\ pairs[1].request.pathtype = "OS"
              /\ pairs[1].request.paths = ExtractedPaths(NestedResponses(executed, parsed[n]), source.pathspec_attribute)
              /\ (\A k \in 1..Len(source.artifact_sources) : parsed[n] \o <<k>> \in Range(parsed))
              /\ (\A y \in NestedYielded(parsed[n]) :
                    /\ y < IndexOf(yielded, pairs[1].id)
                    /\ ExecutedCount(yielded[y].id) = 1
                    /\ (IndexOf(executed, pairs[1].id) # 0 => IndexOf(executed, yielded[y].id) < IndexOf(executed, pairs[1].id)))))

\* under apply_parsers, a collected artifact with registered parsers whose
\* ARTIFACT_FILES source ran three nested requests and asked for the two
\* paths that two of the three responses hold
C15_Witness == args.apply_parsers /\ (\E n \in FilesSources : SourceDone(n) /\ GetClassesByArtifact(args.artifacts[parsed[n][1]].name) # <<>> /\ Len(NestedResponses(executed, parsed[n])) = 3 /\ Len(YieldedFor(yielded, parsed[n])[1].request.paths) = 2)

\* a collected ARTIFACT_FILES source whose nested response holds no path:
\* the download request was yielded with no path
C15_EmptyDownloadWitness == \E n \in FilesSources : SourceDone(n) /\ Len(NestedResponses(executed, parsed[n])) = 1 /\ YieldedFor(yielded, parsed[n])[1].request.paths = <<>> /\ ExecutedCount(YieldedFor(yielded, parsed[n])[1].id) = 1

\* the registered parsers of artifact i that derive from a base class
ParsersOf(i, base) == {GetClassesByArtifact(args.artifacts[i].name)[m].name : m \in {m \in 1..Len(GetClassesByArtifact(args.artifacts[i].name)) : GetClassesByArtifact(args.artifacts[i].name)[m].base = base}}

\* C16, as the claim states it: every record a WMIQueryParser produced was
\* produced by a call that was given the response and the knowledge base of
\* the run, not None.
C16_WmiParserGetsKnowledgeBase == \A i \in 1..index : \A n \in 1..Len(KeptFor(i)) : (IsParsed(KeptFor(i)[n].value) /\ KeptFor(i)[n].value.cls \in ParsersOf(i, "WMIQueryParser")) => (KeptFor(i)[n].value.knowledge_base = args.knowledge_base)

\* the GRR_CLIENT_ACTION sources that were resolved
ClientActionSources == {n \in 1..Len(parsed) : SourceAt(parsed[n]).type = "GRR_CLIENT_ACTION"}

\* the request _ProcessClientActionSource pairs with a named action
DefaultRequest(name) == [NoRequest EXCEPT !.cls = IF name = "ListNetworkConnections" THEN "ListNetworkConnectionsArgs" ELSE "dict"]

\* C17: a CLIENT_ACTION source naming GetHostname, ListProcesses,
\* ListNetworkConnections, EnumerateInterfaces or EnumerateUsers yields one
\* pair, the named action with its default request, and no second one; any
\* other name ends the run with the ValueError "Incorrect action type" (the
\* claim's UnsupportedSourceKind) and nothing is run for the source; an
\* artifact of one CLIENT_ACTION source, collected without parsers after one
\* response, has one result, tagged with the class of the response.
C17_ClientActionSwitch ==
  /\ (\A n \in ClientActionSources :
        LET name == SourceAt(parsed[n]).client_action
            pairs == YieldedFor(yielded, parsed[n])
        IN IF name \in {"GetHostname", "ListProcesses", "ListNetworkConnections", "EnumerateInterfaces", "EnumerateUsers"}
           THEN /\ ~FailedWith(n, IncorrectActionType)
                /\ Len(pairs) <= 1
                /\ ((n < Len(parsed) \/ SourceDone(n)) => (Len(pairs) = 1 /\ ExecutedCount(pairs[1].id) = 1))
                /\ (\A m \in 1..Len(pairs) : pairs[m].action = name /\ pairs[m].request = DefaultRequest(name))
           ELSE FailedWith(n, IncorrectActionType) /\ NothingRunFor(parsed[n]))
  /\ (error = IncorrectActionType => (parsed # <<>> /\ Len(parsed) \in ClientActionSources))
  /\ (\A i \in 1..Len(result) :
        (Len(args.artifacts[i].sources) = 1 /\ args.artifacts[i].sources[1].type = "GRR_CLIENT_ACTION" /\ NoParsers(i) /\ Len(ResponsesOf(executed, i, FALSE)) = 1) =>
          (Len(result[i].action_results) = 1 /\ result[i].action_results[1].type = ResponsesOf(executed, i, FALSE)[1].cls /\ result[i].action_results[1].value = ResponsesOf(executed, i, FALSE)[1]))

\* artifact Hostname collected with its one DataBlob result
C17_Witness == \E i \in 1..Len(result) : args.artifacts[i].sources = <<ClientActionSource("GetHostname")>> /\ Len(result[i].action_results) = 1 /\ result[i].action_results[1].type = "DataBlob"

\* a run that failed at a CLIENT_ACTION source naming StatFS, after the
\* ListNetworkConnections source before it was run
C17_UnknownActionWitness == error = IncorrectActionType /\ SourceAt(Last(parsed)).client_action = "StatFS" /\ Len(executed) = 1 /\ executed[1].action = "ListNetworkConnections"

\* how many pairs the generator of a source yields when it runs to its end
RequestCount(source) == IF source.type = "ARTIFACT_FILES" THEN 1 ELSE Len((CHOOSE outcome \in _ParseSourceType(source, args.knowledge_base, args.ignore_interpolation_errors) : TRUE).pending)

\* the generator of the source at pos ran to its end: every pair yielded and executed
Complete(pos) ==
  /\ pos \in Range(parsed)
  /\ Len(YieldedFor(yielded, pos)) = RequestCount(SourceAt(pos))
  /\ (\A y \in 1..Len(yielded) : (Len(yielded[y].id) > Len(pos) /\ IsPrefix(pos, yielded[y].id)) => ExecutedCount(yielded[y].id) = 1)

\* where in parsed a position is; 0 when it is not there
ParsedAt(pos) == IF pos \in Range(parsed) THEN CHOOSE n \in 1..Len(parsed) : parsed[n] = pos ELSE 0

\* C18: pairs are executed in the order they are yielded, each before the
\* next one is yielded; a source is resolved only after every source before
\* it in its list was resolved and ran all its requests, and after every
\* artifact before its own was collected in full; so when a run has failed,
\* every source before the failure point has run all its requests, every
\* yielded pair was executed, and nothing was run for a source never reached.
C18_LazyInOrder ==
  /\ Len(yielded) = Len(executed) + (IF current # NoPair THEN 1 ELSE 0)
  /\ (\A x \in 1..Len(executed) : executed[x].id = yielded[x].id)
  /\ (\A y \in 1..Len(yielded) : Front(yielded[y].id) \in Range(parsed))
  /\ (\A n \in 1..Len(parsed) :
        /\ (\A j \in 1..(Last(parsed[n]) - 1) : Complete(Front(parsed[n]) \o <<j>>) /\ ParsedAt(Front(parsed[n]) \o <<j>>) < n)
        /\ (Len(parsed[n]) > 2 => (ParsedAt(Front(parsed[n])) # 0 /\ ParsedAt(Front(parsed[n])) < n))
        /\ (\A i \in 1..(parsed[n][1] - 1) : FullyProcessed(i))
        /\ (\A m \in 1..Len(parsed) : (parsed[m] = parsed[n]) => (m = n)))
  /\ (\A i \in 1..Len(result) : \A k \in 1..Len(args.artifacts[i].sources) : Complete(<<i, k>>))
  /\ (pc = "Raised" => Len(yielded) = Len(executed))

\* a run that failed at the second source of its second artifact, after the
\* first artifact ran two requests and the source before the failure one
C18_Witness == pc = "Raised" /\ Len(parsed) >= 3 /\ Last(parsed) = <<2, 2>> /\ Len(executed) = 3 /\ executed[1].id[1] = 1 /\ executed[2].id[1] = 1 /\ executed[3].id = <<2, 1, 1>> /\ error \in {NotImplementedError, IncorrectActionType, IncorrectSourceType}

\* C19: an ARTIFACT_FILES source whose path type is not OS ends the run
\* with the ValueError "Only supported path type is OS." (the claim's
\* UnsupportedPathType): none of its nested sources is resolved, no nested
\* pair and no download pair is yielded or executed.
C19_ArtifactFilesPathTypeChecked ==
  \A n \in 1..Len(parsed) : (SourceAt(parsed[n]).type = "ARTIFACT_FILES" /\ SourceAt(parsed[n]).path_type # "OS") =>
    (/\ FailedWith(n, OnlyOSPathType)
     /\ NothingRunFor(parsed[n])
     /\ (\A m \in 1..Len(parsed) : IsPrefix(parsed[n], parsed[m]) => m = n))

\* a run that failed at an ARTIFACT_FILES source with path type REGISTRY
\* that has a nested source, after an artifact before it ran a request
C19_Witness == pc = "Raised" /\ error = OnlyOSPathType /\ parsed # <<>> /\ SourceAt(Last(parsed)).type = "ARTIFACT_FILES" /\ SourceAt(Last(parsed)).artifact_sources # <<>> /\ Last(parsed)[1] = 2 /\ executed # <<>>

====
